---- MODULE Spec2Model ----
(***************************************************************************)
(* A model of jpeg_rename.py (SLCPython/jpeg_rename).                      *)
(*                                                                         *)
(* File names and EXIF strings are sequences of one-character strings, so  *)
(* that lowercasing, the regular expressions and the substitutions are     *)
(* computed character by character as the Python code computes them.      *)
(* The program is Python 2 (dict.iteritems, e.message): str and bytes are  *)
(* one type, \d is [0-9], and $ also matches before a final newline.       *)
(***************************************************************************)
EXTENDS Integers, Sequences, FiniteSets, TLC

VARIABLES
    pc,         \* position of the program
    workdir,    \* [exists, writable]: what os.path.exists / os.access see
    dir,        \* names present in workdir (the file system)
    exif,       \* name -> EXIF dict, what read_exif_data returns per file
    clobber,    \* "None", "True" or "False"
    move_func,  \* which move function process_file_map was given
    file_map,   \* dict old_fn -> new_fn
    ext_i,      \* index in EXTENSIONS of the running outer loop
    glob_rest,  \* rest of the running glob.glob() result
    old_fn,     \* local of init_file_map / argument
    exif_data,  \* local of init_file_map / argument
    new_fn,     \* local of get_new_fn / make_new_fn_unique / init_file_map
    counter,    \* local of make_new_fn_unique
    todo,       \* rest of file_map.iteritems()
    moves       \* calls of move_func made so far, in order

vars == <<pc, workdir, dir, exif, clobber, move_func, file_map, ext_i,
          glob_rest, old_fn, exif_data, new_fn, counter, todo, moves>>

----------------------------------------------------------------------------
(* Bounds *)

MaxStem    == 2    \* length of the generated file-name stems
MaxFiles   == 3    \* image files in the scanned directory
MaxDirU    == 3    \* names in the directory given to make_new_fn_unique
MaxCounter == 6    \* iterations of the collision loop that are followed

----------------------------------------------------------------------------
(* Characters and strings *)

Upper == <<"A","B","C","D","E","F","G","H","I","J","K","L","M",
           "N","O","P","Q","R","S","T","U","V","W","X","Y","Z">>
Lower == <<"a","b","c","d","e","f","g","h","i","j","k","l","m",
           "n","o","p","q","r","s","t","u","v","w","x","y","z">>
Digits == <<"0","1","2","3","4","5","6","7","8","9">>

IsDigit(c) == \E i \in 1..10 : Digits[i] = c

\* str.lower() on one character
LowerChar(c) ==
    IF \E i \in 1..26 : Upper[i] = c
    THEN Lower[CHOOSE i \in 1..26 : Upper[i] = c]
    ELSE c

\* str.lower()
lower(s) == [i \in 1..Len(s) |-> LowerChar(s[i])]

EndsWith(s, p) == Len(s) >= Len(p) /\ SubSeq(s, Len(s) - Len(p) + 1, Len(s)) = p

\* str(n) for n >= 0, as "{0}".format(n) renders it
RECURSIVE str(_)
str(n) == IF n < 10 THEN <<Digits[n + 1]>>
          ELSE str(n \div 10) \o <<Digits[(n % 10) + 1]>>

\* length of the longest run of digits of s that starts at position i
RECURSIVE DigitRun(_, _)
DigitRun(s, i) ==
    IF i <= Len(s) /\ IsDigit(s[i]) THEN 1 + DigitRun(s, i + 1) ELSE 0

\* the positions where $ matches: the end, and before a final newline
DollarEnds(s) ==
    {Len(s)} \cup (IF Len(s) > 0 /\ s[Len(s)] = "\n" THEN {Len(s) - 1} ELSE {})

----------------------------------------------------------------------------
(* Python values found in an EXIF dict *)

None == [type |-> "None"]
PyStr(s) == [type |-> "str", chars |-> s]
PyBytes(s) == [type |-> "bytes", chars |-> s]
PyInt(n) == [type |-> "int", num |-> n]

\* bool(v)
Truthy(v) ==
    CASE v.type = "None" -> FALSE
      [] v.type = "int" -> v.num # 0
      [] OTHER -> Len(v.chars) > 0

\* True when re.match accepts the argument (str, or bytes which is str in
\* Python 2); anything else raises TypeError
IsStringLike(v) == v.type \in {"str", "bytes"}

\* "{0}".format(v) for the values that reach line 71
Format(v) == IF v.type = "int" THEN str(v.num) ELSE v.chars

DTO == "DateTimeOriginal"

----------------------------------------------------------------------------
(* get_new_fn *)

\* YYYY:MM:DD HH:MM:SS, exactly 19 characters
TimestampShape(s) ==
    /\ Len(s) >= 19
    /\ \A i \in {1,2,3,4,6,7,9,10,12,13,15,16,18,19} : IsDigit(s[i])
    /\ \A i \in {5,8,14,17} : s[i] = ":"
    /\ s[11] = " "

\* re.match(r'^\d{4}:\d\d:\d\d \d\d:\d\d:\d\d$', s) is not None
MatchTimestamp(s) == TimestampShape(s) /\ 19 \in DollarEnds(s)

\* re.sub(r'.jpeg$', r'.jpg', s): the dot is the regex any-character
\* (except newline); the leftmost match is the one replaced
SubJpeg(s) ==
    LET ends == {e \in DollarEnds(s) :
                    /\ e >= 5
                    /\ SubSeq(s, e - 3, e) = <<"j","p","e","g">>
                    /\ s[e - 4] # "\n"}
    IN IF ends = {} THEN s
       ELSE LET e == CHOOSE x \in ends : \A y \in ends : x <= y
            IN SubSeq(s, 1, e - 5) \o <<".","j","p","g">>
                   \o SubSeq(s, e + 1, Len(s))

\* re.sub(r':', r'', s)
SubColon(s) == SelectSeq(s, LAMBDA c : c # ":")

\* the space substitution left out
SubSpaceKept(s) == s

\* re.sub(r' ', r'_', s)
SubSpace(s) == [i \in 1..Len(s) |-> IF s[i] = " " THEN "_" ELSE s[i]]

\* lines 53-56: the try/except KeyError
LookupDTO(d) == IF DTO \in DOMAIN d THEN d[DTO] ELSE None

\* lines 60-63 raise TypeError when re.match is reached with a non-string
GetNewFnRaises(d) ==
    LET v == LookupDTO(d) IN Truthy(v) /\ ~IsStringLike(v)

\* lines 60-63: the value of new_fn after the pattern check
AfterPattern(d) ==
    LET v == LookupDTO(d)
    IN IF Truthy(v) /\ ~MatchTimestamp(v.chars) THEN None ELSE v

\* lines 67-82; defined when GetNewFnRaises(d) is false
get_new_fn(f, d) ==
    LET v == AfterPattern(d)
        n == IF v = None
             THEN SubJpeg(lower(f))
             ELSE Format(v) \o <<".","j","p","g">>
    IN SubSpace(SubColon(n))


----------------------------------------------------------------------------
(* Inputs of the name deriver *)

Jpg == <<".","j","p","g">>
TS1 == <<"2","0","1","4",":","0","8",":","1","6"," ","0","6",":","2","0",":","3","0">>
TS2 == <<"2","0","1","4",":","0","8",":","1","8"," ","2","0",":","2","3",":","4","5">>
TSDash == <<"2","0","1","4","-","0","8","-","1","6"," ","0","6",":","2","0",":","3","0">>

Replace(s, i, c) == [s EXCEPT ![i] = c]
Delete(s, i) == SubSeq(s, 1, i - 1) \o SubSeq(s, i + 1, Len(s))
Insert(s, i, c) == SubSeq(s, 1, i) \o <<c>> \o SubSeq(s, i + 1, Len(s))

MutChars == {"0", "7", ":", " ", "-", "a", "\n"}

\* TS1 and every string one edit away from it, plus a few others
TimestampStrings ==
    {TS1, TS2, TSDash, <<>>, <<" ">>, <<"2","0","1","4">>, TS1 \o Jpg}
    \cup {Replace(TS1, i, c) : i \in 1..19, c \in MutChars}
    \cup {Delete(TS1, i) : i \in 1..19}
    \cup {Insert(TS1, i, c) : i \in 0..19, c \in MutChars}

Blobs == {<<>>, <<"0","2","2","1">>, <<"\n">>, <<"J","P",":"," ">>}
Numbers == {0, 1, 5, 20140816}

DTOValues ==
    {PyStr(t) : t \in TimestampStrings}
    \cup {PyBytes(b) : b \in Blobs}
    \cup {PyInt(n) : n \in Numbers}

NoDTODicts == {<<>>, ("Make" :> PyStr(<<"x">>)), ("Orientation" :> PyInt(1))}
ExifDicts == NoDTODicts \cup {(DTO :> v) : v \in DTOValues}

StemChars == {"a", "B", ":", " "}

RECURSIVE SeqsUpTo(_, _)
SeqsUpTo(S, n) ==
    IF n = 0 THEN {<<>>}
    ELSE LET shorter == SeqsUpTo(S, n - 1)
         IN shorter \cup {Append(s, c) : s \in shorter, c \in S}

Extensions ==
    { <<>>, Jpg, <<".","J","P","G">>, <<".","j","p","e","g">>,
      <<".","J","P","E","G">>, <<"j","p","e","g">>, <<"1","J","p","e","G">>,
      <<".","j","p","e","g","\n">>, <<".","j","p","e","g",".","j","p","g">> }

ABC123 == <<"a","b","c","1","2","3",".","j","p","g">>
IMG0332 == <<"I","M","G","0","3","3","2",".","J","P","G">>

DeriveNames ==
    {ABC123, IMG0332}
    \cup ({s \o e : s \in SeqsUpTo(StemChars, MaxStem), e \in Extensions}
             \ {<<>>})

----------------------------------------------------------------------------
(* Specification of get_new_fn alone: one call on any of the inputs *)

Unused ==
    /\ workdir = [exists |-> TRUE, writable |-> TRUE]
    /\ exif = <<>>
    /\ clobber = "None"
    /\ move_func = "None"
    /\ file_map = <<>>
    /\ ext_i = 0
    /\ glob_rest = <<>>
    /\ todo = <<>>
    /\ moves = <<>>

InitDerive ==
    /\ pc = "get_new_fn"
    /\ old_fn \in DeriveNames
    /\ exif_data \in ExifDicts
    /\ new_fn = None
    /\ dir = {}
    /\ counter = 0
    /\ Unused

CallReturns ==
    /\ pc = "get_new_fn"
    /\ ~GetNewFnRaises(exif_data)
    /\ new_fn' = get_new_fn(old_fn, exif_data)
    /\ pc' = "returned"
    /\ UNCHANGED <<workdir, dir, exif, clobber, move_func, file_map, ext_i,
                   glob_rest, old_fn, exif_data, counter, todo, moves>>

CallRaises ==
    /\ pc = "get_new_fn"
    /\ GetNewFnRaises(exif_data)
    /\ pc' = "TypeError"
    /\ UNCHANGED <<workdir, dir, exif, clobber, move_func, file_map, ext_i,
                   glob_rest, old_fn, exif_data, new_fn, counter, todo, moves>>

NextDerive == CallReturns \/ CallRaises

SpecDerive == InitDerive /\ [][NextDerive]_vars

----------------------------------------------------------------------------
(* Properties of get_new_fn *)

HasDTO(type) == DTO \in DOMAIN exif_data /\ exif_data[DTO].type = type
Finished == pc \in {"returned", "TypeError"}

\* the pattern of section 4.1, with nothing before or after it
StrictTimestamp(s) == Len(s) = 19 /\ TimestampShape(s)

\* YYYYMMDD_HHMMSS, taken position by position from YYYY:MM:DD HH:MM:SS
Compact(t) ==
    <<t[1], t[2], t[3], t[4], t[6], t[7], t[9], t[10], "_",
      t[12], t[13], t[15], t[16], t[18], t[19]>>

\* lowercase(f), a trailing literal '.jpeg' rewritten to '.jpg', then the
\* ':' removed and the spaces replaced
LiteralFallback(f) ==
    LET l == lower(f)
        r == IF EndsWith(l, <<".","j","p","e","g">>)
             THEN SubSeq(l, 1, Len(l) - 5) \o Jpg
             ELSE l
    IN SubSpace(SubColon(r))

\* C3: a timestamp string that does not strictly match the pattern (the
\* empty string included) gives the same name as no timestamp field at all.
C3_MalformedFallsBack ==
    (Finished /\ HasDTO("str") /\ ~StrictTimestamp(exif_data[DTO].chars))
        => (pc = "returned" /\ new_fn = get_new_fn(old_fn, <<>>))

\* C4: a timestamp YYYY:MM:DD HH:MM:SS gives YYYYMMDD_HHMMSS.jpg, whatever
\* the original name is.
C4_ValidTimestampName ==
    (Finished /\ HasDTO("str") /\ StrictTimestamp(exif_data[DTO].chars))
        => (pc = "returned" /\ new_fn = Compact(exif_data[DTO].chars) \o Jpg)

C4_Witness ==
    /\ pc = "returned"
    /\ old_fn = ABC123
    /\ exif_data = (DTO :> PyStr(TS1))
    /\ new_fn = <<"2","0","1","4","0","8","1","6","_",
                  "0","6","2","0","3","0",".","j","p","g">>

\* C5: without a capture timestamp the name is the lowercased original
\* with only a trailing literal '.jpeg' rewritten to '.jpg', sanitized.
C5_FallbackName ==
    (Finished /\ DTO \notin DOMAIN exif_data)
        => (pc = "returned" /\ new_fn = LiteralFallback(old_fn))

\* C10: a numeric or binary timestamp value never makes get_new_fn fail and
\* is never used: the result is the no-timestamp name.
C10_NonStringFallsBack ==
    (Finished /\ (HasDTO("int") \/ HasDTO("bytes")))
        => (pc = "returned" /\ new_fn = get_new_fn(old_fn, <<>>))

----------------------------------------------------------------------------
(* make_new_fn_unique *)

\* os.path.exists(os.path.join(workdir, name)); the empty name joins to
\* workdir itself, which exists
exists(name) == name \in dir \/ name = <<>>

\* ^(\d+_\d+): length of the match of group 1 at the start of s, 0 if none
Group1(s) ==
    LET a == DigitRun(s, 1)
        b == DigitRun(s, a + 2)
    IN IF a >= 1 /\ Len(s) >= a + 1 /\ s[a + 1] = "_" /\ b >= 1
       THEN a + 1 + b ELSE 0

\* end of the match of ^(\d+_\d+)-\d+\.jpg in s, 0 if none
MatchSuffixed(s) ==
    LET g == Group1(s)
        c == DigitRun(s, g + 2)
    IN IF /\ g >= 1
          /\ Len(s) >= g + 1 /\ s[g + 1] = "-"
          /\ c >= 1
          /\ SubSeq(s, g + 2 + c, g + 5 + c) = Jpg
       THEN g + 5 + c ELSE 0

\* end of the match of ^(\d+_\d+)\.jpg in s, 0 if none
MatchPlain(s) ==
    LET g == Group1(s)
    IN IF g >= 1 /\ SubSeq(s, g + 1, g + 4) = Jpg THEN g + 4 ELSE 0

\* the replacement r'\1-{0}.jpg'.format(counter) put in place of s[1..e]
Suffixed(s, e, n) ==
    SubSeq(s, 1, Group1(s)) \o <<"-">> \o str(n) \o Jpg \o SubSeq(s, e + 1, Len(s))

\* lines 113-114
SubSuffixed(s, n) ==
    IF MatchSuffixed(s) > 0 THEN Suffixed(s, MatchSuffixed(s), n) ELSE s

\* lines 115-116
SubPlain(s, n) ==
    IF MatchPlain(s) > 0 THEN Suffixed(s, MatchPlain(s), n) ELSE s

\* lines 113-116: one pass of the loop body; the result of the first
\* substitution is bound once and handed to the second
Rewrite(s, n) ==
    CHOOSE r \in {SubPlain(t, n) : t \in {SubSuffixed(s, n)}} : TRUE

\* the test of line 111 never true
NoSelfCollision(o, n) == FALSE

\* line 111
SelfCollision(o, n) == o = n

\* line 110 false: the while loop ends
LoopFree ==
    /\ pc = "unique_test"
    /\ ~exists(new_fn)
    /\ pc' = "unique_return"
    /\ UNCHANGED <<workdir, dir, exif, clobber, move_func, file_map, ext_i,
                   glob_rest, old_fn, exif_data, new_fn, counter, todo, moves>>

\* lines 111-112: break
LoopBreak ==
    /\ pc = "unique_test"
    /\ exists(new_fn)
    /\ SelfCollision(old_fn, new_fn)
    /\ pc' = "unique_return"
    /\ UNCHANGED <<workdir, dir, exif, clobber, move_func, file_map, ext_i,
                   glob_rest, old_fn, exif_data, new_fn, counter, todo, moves>>

\* lines 113-117: one iteration; followed for MaxCounter iterations
LoopRewrite ==
    /\ pc = "unique_test"
    /\ exists(new_fn)
    /\ ~SelfCollision(old_fn, new_fn)
    /\ counter <= MaxCounter
    /\ new_fn' = Rewrite(new_fn, counter)
    /\ counter' = counter + 1
    /\ UNCHANGED <<pc, workdir, dir, exif, clobber, move_func, file_map, ext_i,
                   glob_rest, old_fn, exif_data, todo, moves>>

----------------------------------------------------------------------------
(* Specification of make_new_fn_unique alone: one call, on any original   *)
(* name, candidate and directory made of the names below                   *)

N12 == <<"1","_","2",".","j","p","g">>
N12s(k) == <<"1","_","2","-">> \o str(k) \o Jpg
img0332 == <<"i","m","g","0","3","3","2",".","j","p","g">>

UniqueNames ==
    { N12, N12s(1), N12s(2), N12s(3), N12s(10),
      N12 \o <<".","b","a","k">>,
      <<"1","2",".","j","p","g">>,
      <<"1","_","2","-","x",".","j","p","g">>,
      IMG0332, img0332 }

InitUnique ==
    /\ pc = "unique_test"
    /\ old_fn \in UniqueNames
    /\ new_fn \in UniqueNames
    /\ dir \in {d \in SUBSET UniqueNames : Cardinality(d) <= MaxDirU}
    /\ counter = 1
    /\ exif_data = <<>>
    /\ Unused

NextUnique == LoopFree \/ LoopBreak \/ LoopRewrite

SpecUnique == InitUnique /\ [][NextUnique]_vars

\* The same call, entered from a single state before the arguments are
\* bound, with the scheduling of a sequential program: the loop takes its
\* next step as long as it has one.
InitCall ==
    /\ pc = "unique_call"
    /\ old_fn = <<>>
    /\ new_fn = None
    /\ dir = {}
    /\ counter = 0
    /\ exif_data = <<>>
    /\ Unused

CallUnique ==
    /\ pc = "unique_call"
    /\ pc' = "unique_test"
    /\ old_fn' \in UniqueNames
    /\ new_fn' \in UniqueNames
    /\ dir' \in {d \in SUBSET UniqueNames : Cardinality(d) <= MaxDirU}
    /\ counter' = 1
    /\ UNCHANGED <<workdir, exif, clobber, move_func, file_map, ext_i,
                   glob_rest, exif_data, todo, moves>>

NextCall == CallUnique \/ LoopFree \/ LoopBreak \/ LoopRewrite

FairUnique == InitCall /\ [][NextCall]_vars /\ WF_vars(NextCall)

\* The iterations that are not followed are those of a loop that no longer
\* changes anything: neither pattern matches, so the name stays as it is.
CutOnlyWhenStuck ==
    (pc = "unique_test" /\ counter > MaxCounter /\ exists(new_fn)
        /\ ~SelfCollision(old_fn, new_fn))
    => (MatchSuffixed(new_fn) = 0 /\ MatchPlain(new_fn) = 0)

\* C2: make_new_fn_unique terminates on every candidate, original name and
\* directory.
C2_Terminates == <>(pc = "unique_return")

\* C9: the candidate is returned unchanged when it is free or when it is the
\* file's own name, and the returned name is free or the original name.
C9_ReturnsFreeOrSelf ==
    /\ [](pc = "unique_return" => (new_fn \notin dir \/ new_fn = old_fn))
    /\ [][(pc = "unique_test" /\ counter = 1
             /\ (new_fn \notin dir \/ new_fn = old_fn))
          => (pc' = "unique_return" /\ new_fn' = new_fn)]_vars

C9_Witness ==
    /\ pc = "unique_return"
    /\ counter = 1
    /\ new_fn = old_fn
    /\ new_fn \in dir

----------------------------------------------------------------------------
(* The program: process_all_files, init_file_map, process_file_map, move   *)

EXTENSIONS == << <<"J","P","G">>, <<"j","p","g">>, <<"j","p","e","g">> >>

\* glob.glob(os.path.join(workdir, '*.' + ext)): the names of d that end in
\* '.' + ext; '*' does not match a leading dot
Glob(d, ext) == {n \in d : EndsWith(n, <<".">> \o ext) /\ n[1] # "."}

\* the orders in which a listing or a dict can enumerate the set S
RECURSIVE Orders(_)
Orders(S) ==
    IF S = {} THEN {<<>>}
    ELSE UNION {{<<x>> \o r : r \in Orders(S \ {x})} : x \in S}

\* file_map[k] = v
DictSet(m, k, v) ==
    [x \in DOMAIN m \cup {k} |-> IF x = k THEN v ELSE m[x]]

\* the test of line 167 without clobber
ShouldMoveAnyClobber(c, m) == m # "None"

\* line 167: clobber and move_func
ShouldMove(c, m) == c = "True" /\ m # "None"

\* lines 94-95 of move are unreachable: the function returns at line 92,
\* and the directory is what it was
MoveEffect(d, o, n) == d

\* os.rename(o, n) on the directory d
Rename(d, o, n) == (d \ {o}) \cup {n}

\* what a call move_func(old, new) that returns leaves in the directory
MoverEffect(m, d, o, n) ==
    IF m = "move" THEN MoveEffect(d, o, n) ELSE Rename(d, o, n)

\* lines 178-189: the directory is missing
ExitNoDir ==
    /\ pc = "process_all_files"
    /\ ~workdir.exists
    /\ pc' = "exit1"
    /\ UNCHANGED <<workdir, dir, exif, clobber, move_func, file_map, ext_i,
                   glob_rest, old_fn, exif_data, new_fn, counter, todo, moves>>

\* lines 186-189: the directory is not writable
ExitNotWritable ==
    /\ pc = "process_all_files"
    /\ workdir.exists
    /\ ~workdir.writable
    /\ pc' = "exit1"
    /\ UNCHANGED <<workdir, dir, exif, clobber, move_func, file_map, ext_i,
                   glob_rest, old_fn, exif_data, new_fn, counter, todo, moves>>

\* lines 191-194 and 128: clobber defaults to False, init_file_map starts
StartPlanning ==
    /\ pc = "process_all_files"
    /\ workdir.exists
    /\ workdir.writable
    /\ clobber' = IF clobber = "None" THEN "False" ELSE clobber
    /\ file_map' = <<>>
    /\ ext_i' = 1
    /\ pc' = "for_extension"
    /\ UNCHANGED <<workdir, dir, exif, move_func, glob_rest, old_fn,
                   exif_data, new_fn, counter, todo, moves>>

\* lines 131-133: the glob of the next extension, in the order of the listing
ForExtension ==
    /\ pc = "for_extension"
    /\ ext_i <= Len(EXTENSIONS)
    /\ glob_rest' \in Orders(Glob(dir, EXTENSIONS[ext_i]))
    /\ pc' = "for_filename"
    /\ UNCHANGED <<workdir, dir, exif, clobber, move_func, file_map, ext_i,
                   old_fn, exif_data, new_fn, counter, todo, moves>>

\* line 142: return file_map
ReturnFileMap ==
    /\ pc = "for_extension"
    /\ ext_i > Len(EXTENSIONS)
    /\ pc' = "planned"
    /\ UNCHANGED <<workdir, dir, exif, clobber, move_func, file_map, ext_i,
                   glob_rest, old_fn, exif_data, new_fn, counter, todo, moves>>

\* lines 134-137: the next file of the glob and its EXIF data
ForFilename ==
    /\ pc = "for_filename"
    /\ glob_rest # <<>>
    /\ old_fn' = Head(glob_rest)
    /\ exif_data' = exif[Head(glob_rest)]
    /\ pc' = "get_new_fn"
    /\ UNCHANGED <<workdir, dir, exif, clobber, move_func, file_map, ext_i,
                   glob_rest, new_fn, counter, todo, moves>>

\* the glob is exhausted
EndGlob ==
    /\ pc = "for_filename"
    /\ glob_rest = <<>>
    /\ ext_i' = ext_i + 1
    /\ pc' = "for_extension"
    /\ UNCHANGED <<workdir, dir, exif, clobber, move_func, file_map,
                   glob_rest, old_fn, exif_data, new_fn, counter, todo, moves>>

\* lines 138 and 109: make_new_fn_unique is entered with the derived name
EnterUnique ==
    /\ pc = "returned"
    /\ counter' = 1
    /\ pc' = "unique_test"
    /\ UNCHANGED <<workdir, dir, exif, clobber, move_func, file_map, ext_i,
                   glob_rest, old_fn, exif_data, new_fn, todo, moves>>

\* line 140
Record ==
    /\ pc = "unique_return"
    /\ file_map' = DictSet(file_map, old_fn, new_fn)
    /\ glob_rest' = Tail(glob_rest)
    /\ pc' = "for_filename"
    /\ UNCHANGED <<workdir, dir, exif, clobber, move_func, ext_i,
                   old_fn, exif_data, new_fn, counter, todo, moves>>

\* line 195: process_file_map(workdir, file_map, clobber), default move_func
CallProcess ==
    /\ pc = "planned"
    /\ move_func' = "move"
    /\ pc' = "process_file_map"
    /\ UNCHANGED <<workdir, dir, exif, clobber, file_map, ext_i, glob_rest,
                   old_fn, exif_data, new_fn, counter, todo, moves>>

\* line 165: iteritems() enumerates the dict in some order
BeginIter ==
    /\ pc = "process_file_map"
    /\ todo' \in Orders(DOMAIN file_map)
    /\ pc' = "iterate"
    /\ UNCHANGED <<workdir, dir, exif, clobber, move_func, file_map, ext_i,
                   glob_rest, old_fn, exif_data, new_fn, counter, moves>>

\* line 167 false: nothing is called for this entry
IterSkip ==
    /\ pc = "iterate"
    /\ todo # <<>>
    /\ ~ShouldMove(clobber, move_func)
    /\ todo' = Tail(todo)
    /\ UNCHANGED <<pc, workdir, dir, exif, clobber, move_func, file_map,
                   ext_i, glob_rest, old_fn, exif_data, new_fn, counter,
                   moves>>

\* lines 168-169: move_func is called and returns
IterMove ==
    /\ pc = "iterate"
    /\ todo # <<>>
    /\ ShouldMove(clobber, move_func)
    /\ moves' = Append(moves, [old |-> Head(todo),
                               new |-> file_map[Head(todo)],
                               raised |-> FALSE])
    /\ dir' = MoverEffect(move_func, dir, Head(todo), file_map[Head(todo)])
    /\ todo' = Tail(todo)
    /\ UNCHANGED <<pc, workdir, exif, clobber, move_func, file_map, ext_i,
                   glob_rest, old_fn, exif_data, new_fn, counter>>

\* continue in place of break
AfterRaiseContinue == "iterate"

\* where the loop of process_file_map goes after a call that raised
AfterRaise == "done"

\* lines 168-172: an injected move_func is called and raises; the handler
\* prints and breaks
IterRaise ==
    /\ pc = "iterate"
    /\ todo # <<>>
    /\ ShouldMove(clobber, move_func)
    /\ move_func = "rename"
    /\ moves' = Append(moves, [old |-> Head(todo),
                               new |-> file_map[Head(todo)],
                               raised |-> TRUE])
    /\ pc' = AfterRaise
    /\ todo' = Tail(todo)
    /\ UNCHANGED <<workdir, dir, exif, clobber, move_func, file_map, ext_i,
                   glob_rest, old_fn, exif_data, new_fn, counter>>

\* the dict is exhausted
IterEnd ==
    /\ pc = "iterate"
    /\ todo = <<>>
    /\ pc' = "done"
    /\ UNCHANGED <<workdir, dir, exif, clobber, move_func, file_map, ext_i,
                   glob_rest, old_fn, exif_data, new_fn, counter, todo, moves>>

----------------------------------------------------------------------------
(* Runs of the program *)

a_jpeg == <<"a",".","j","p","e","g">>
a_jpg == <<"a",".","j","p","g">>
x_Jpg == <<"x",".","J","p","g">>
T20140816 == <<"2","0","1","4","0","8","1","6","_",
               "0","6","2","0","3","0",".","j","p","g">>
T20140816s1 == <<"2","0","1","4","0","8","1","6","_",
                 "0","6","2","0","3","0","-","1",".","j","p","g">>

ProgNames == {IMG0332, img0332, a_jpeg, a_jpg, x_Jpg, T20140816}
ProgExif == {<<>>, (DTO :> PyStr(TS1)), (DTO :> PyInt(5))}
ProgTargets == {T20140816, T20140816s1, img0332, a_jpg}

SmallDirs == {d \in SUBSET ProgNames : Cardinality(d) <= MaxFiles}

Locals ==
    /\ ext_i = 0
    /\ glob_rest = <<>>
    /\ old_fn = <<>>
    /\ exif_data = <<>>
    /\ new_fn = None
    /\ counter = 0
    /\ todo = <<>>
    /\ moves = <<>>

\* the command line: process_all_files(workdir, clobber)
InitMain ==
    /\ pc = "process_all_files"
    /\ workdir \in {[exists |-> TRUE, writable |-> TRUE],
                    [exists |-> TRUE, writable |-> FALSE],
                    [exists |-> FALSE, writable |-> FALSE]}
    /\ dir \in (IF workdir.exists THEN SmallDirs ELSE {{}})
    /\ exif \in [dir -> ProgExif]
    /\ clobber \in {"None", "True", "False"}
    /\ move_func = "move"
    /\ file_map = <<>>
    /\ Locals

\* a direct call process_file_map(workdir, file_map, clobber, move_func) on
\* a mapping of files of the directory, as in the doctest
InitProcess ==
    /\ pc = "process_file_map"
    /\ workdir = [exists |-> TRUE, writable |-> TRUE]
    /\ dir \in SmallDirs
    /\ exif = [n \in dir |-> <<>>]
    /\ file_map \in [dir -> ProgTargets]
    /\ clobber \in {"None", "True", "False"}
    /\ move_func \in {"move", "rename", "None"}
    /\ Locals

Init == InitMain \/ InitProcess

Next ==
    \/ ExitNoDir \/ ExitNotWritable \/ StartPlanning
    \/ ForExtension \/ ReturnFileMap \/ ForFilename \/ EndGlob
    \/ CallReturns \/ CallRaises \/ EnterUnique
    \/ LoopFree \/ LoopBreak \/ LoopRewrite
    \/ Record \/ CallProcess
    \/ BeginIter \/ IterSkip \/ IterMove \/ IterRaise \/ IterEnd

Spec == Init /\ [][Next]_vars

----------------------------------------------------------------------------
(* Properties of the program *)

Keys(ms) == [k \in 1..Len(ms) |-> ms[k].old]
Failed == \E k \in 1..Len(moves) : moves[k].raised
RanFromMain == ext_i > Len(EXTENSIONS)

\* C1: when init_file_map completes, no two original files are mapped to
\* the same name.
C1_DistinctNames ==
    pc = "planned" =>
        \A a, b \in DOMAIN file_map : a # b => file_map[a] # file_map[b]

\* C6: without clobber no move is ever invoked and the directory keeps its
\* names.
C6_DryRunMovesNothing ==
    [][clobber # "True" => (moves' = <<>> /\ dir' = dir)]_vars

C6_Witness ==
    /\ pc = "done"
    /\ clobber = "False"
    /\ move_func = "rename"
    /\ \E k \in DOMAIN file_map : file_map[k] # k

\* C7: a move that raises is the last one: the entries after it are never
\* attempted, and the entries before it were each attempted once.
C7_HaltsAtFailure ==
    /\ []((pc \in {"iterate", "done"} /\ ShouldMove(clobber, move_func)) =>
            /\ Keys(moves) \o todo \in Orders(DOMAIN file_map)
            /\ \A k \in 1..Len(moves) :
                 moves[k].raised => (k = Len(moves) /\ pc = "done"))
    /\ [][Failed => moves' = moves]_vars

C7_Witness ==
    /\ pc = "done"
    /\ Len(moves) >= 2
    /\ moves[Len(moves)].raised
    /\ todo # <<>>

\* C8: after process_all_files(workdir, clobber=True) without failure, every
\* renamed file is in the directory under its new name and not its old one.
C8_MovesExecuted ==
    (pc = "done" /\ RanFromMain /\ clobber = "True" /\ ~Failed) =>
        \A o \in DOMAIN file_map :
            file_map[o] # o => (file_map[o] \in dir /\ o \notin dir)

====
